---------------------------- MODULE Spec2Model ----------------------------
(***************************************************************************)
(* Model of the face-login authentication core (morihik0/face-login):      *)
(*   app/services/face_recognition.py  get_user_encodings, compare_faces,  *)
(*                                     register_face, authenticate_face    *)
(*   app/database/models.py            User, FaceEncoding, AuthLog         *)
(*   app/database/db.py                the SQLite schema (foreign keys)    *)
(*   app/api/public_routes.py          register_user_with_face            *)
(*   app/api/users_routes.py           create_user, delete_user            *)
(*                                                                         *)
(* Numbers.  Distances, confidences and thresholds are fixed-point values  *)
(* in units of 0.05: One = 20 stands for 1.0, 12 for the default threshold *)
(* 0.6, 4 for 0.2 and 1 for 0.05.  A face encoding is a vector of integer  *)
(* coordinates in the same unit (one coordinate in the inputs drawn here). *)
(*                                                                         *)
(* Optional values.  Python's None is the empty sequence <<>> and a        *)
(* present value v is <<v>>.                                               *)
(*                                                                         *)
(* Database.  Each SQL statement that the models execute and commit is one *)
(* atomic step.  Reads are taken to succeed; the writes that the code      *)
(* guards with an exception handler (FaceEncoding.create, AuthLog.create)  *)
(* may fail, either because a foreign key is violated or for a reason      *)
(* outside the program (the Boolean input dbError).                        *)
(***************************************************************************)
EXTENDS Integers, Sequences, FiniteSets, TLC

\* ------------------------------------------------------------------ bounds

\* FACE_RECOGNITION['max_faces_per_user'] (MAX_FACES_PER_USER in the environment)
max_faces_per_user == 2

\* how many users are ever created (ids 1..MaxUsers; AUTOINCREMENT never reuses one)
MaxUsers == 2

\* how many calls (register_face, sign-up, authenticate_face) are started in a
\* run of the sequential specification
MaxCalls == 3

\* how many calls are started in a run of the concurrent specification
ConcCalls == 3

\* how many calls are started in a run of the fair concurrent specification
LiveCalls == 2

\* how many candidate encodings the lists handed to compare_faces hold at most
MaxCandidates == 2

\* how many faces the detector finds at most in a drawn image
MaxFaces == 2

\* ------------------------------------------------------- program constants

\* validate_face_image line 153: the margin in pixels
edge_margin == 10

\* 1.0 in units of 0.05 (confidence = max(0.0, 1.0 - distance))
One == 20

\* the default threshold 0.6 in units of 0.05
DefaultThreshold == 12

\* ------------------------------------------------------------------ inputs

None == <<>>

Some(v) == <<v>>

\* the coordinates the enrolled encodings are drawn from: 0.05 and 0.2
EnrollCoordinates == {1, 4}

\* the coordinates the probe encodings are drawn from: 0.0 (at distances 0.05
\* and 0.2 from the enrolled ones), 0.05 (equal to an enrolled one) and 1.05
\* (at distances 1.0 and 0.85)
ProbeCoordinates == {0, 1, One + 1}

\* the values FACE_RECOGNITION['threshold'] is configured with: 0.0, 0.6, 1.0
Thresholds == {0, DefaultThreshold, One}

\* What extract_face_encoding does with an image is all the model keeps of
\* the image: the encoding it yields, or the exception it raises.
OkImage(coord) == [outcome |-> "encoding", encoding |-> <<coord>>]

BadImage(exc) == [outcome |-> exc, encoding |-> <<>>]

ExtractionErrors ==
    {"FaceDetectionError", "MultipleFacesError", "ImageQualityError", "ValueError"}

EnrollImages ==
    {OkImage(c) : c \in EnrollCoordinates} \cup {BadImage("FaceDetectionError")}

ProbeImages ==
    {OkImage(c) : c \in ProbeCoordinates} \cup {BadImage(e) : e \in ExtractionErrors}

\* the coordinates of the candidates handed to compare_faces, and of the
\* probes: a probe at 0.05 has candidates at 0.0 and 0.1 equally near (0.05),
\* one at 0.6 (the default threshold) and one at 1.05; a probe at 0.1 has an
\* equal candidate and one at exactly 1.0
CandidateCoordinates == {0, 2, DefaultThreshold + 1, One + 2}

CompareProbeCoordinates == {1, 2}

\* the inputs of the concurrent specification
ConcEnrollImages == {OkImage(1), BadImage("FaceDetectionError")}

ConcProbeImages == {OkImage(1), BadImage("FaceDetectionError")}

\* ------------------------------------------------------------ pure helpers

RECURSIVE SumSeq(_)
SumSeq(s) == IF s = <<>> THEN 0 ELSE Head(s) + SumSeq(Tail(s))

\* the integer square root, exact on the perfect squares the model produces
ISqrt(n) == CHOOSE r \in 0..n : r * r <= n /\ (r + 1) * (r + 1) > n

\* the second argument, whatever the first
Max_unclamped(a, b) == b

Max(a, b) == IF a >= b THEN a ELSE b

\* all orderings of a finite set, as sequences without repetition
Orderings(S) ==
    {s \in [1..Cardinality(S) -> S] : \A i, j \in 1..Cardinality(S) : s[i] = s[j] => i = j}

\* extract_face_encoding(image): the encoding, or the exception raised
extract_face_encoding(image) ==
    IF image.outcome = "encoding"
    THEN [raised |-> None, value |-> image.encoding]
    ELSE [raised |-> Some(image.outcome), value |-> <<>>]

\* ndarray.tolist(): the same coordinates as a Python list
tolist(encoding) == [i \in 1..Len(encoding) |-> encoding[i]]

\* json.dumps of a list of numbers: the text, token by token
RECURSIVE json_items(_)
json_items(lst) ==
    IF lst = <<>> THEN <<>>
    ELSE IF Len(lst) = 1 THEN <<[tok |-> "num", val |-> lst[1]]>>
    ELSE <<[tok |-> "num", val |-> lst[1]], [tok |-> ",", val |-> 0]>>
         \o json_items(Tail(lst))

json_dumps(lst) ==
    <<[tok |-> "[", val |-> 0]>> \o json_items(lst) \o <<[tok |-> "]", val |-> 0]>>

\* json.loads of such a text: the numbers between the brackets
json_loads(text) ==
    LET nums == SelectSeq(text, LAMBDA t : t.tok = "num")
    IN  [i \in 1..Len(nums) |-> nums[i].val]

\* FaceEncoding.create line 291: encoding_blob = json.dumps(encoding if encoding else [])
encoding_blob(encoding) == json_dumps(IF encoding # <<>> THEN encoding ELSE <<>>)

\* face_recognition.face_distance: the Euclidean norm of each difference
face_distance(known_encodings, face_encoding) ==
    [i \in 1..Len(known_encodings) |->
        ISqrt(SumSeq([k \in 1..Len(face_encoding) |->
            (known_encodings[i][k] - face_encoding[k])
            * (known_encodings[i][k] - face_encoding[k])]))]

\* the comparison turned round
library_compare_faces_reversed(known_encodings, face_encoding, tolerance) ==
    LET d == face_distance(known_encodings, face_encoding)
    IN  [i \in 1..Len(d) |-> d[i] >= tolerance]

\* face_recognition.compare_faces: distance <= tolerance, per candidate
library_compare_faces(known_encodings, face_encoding, tolerance) ==
    LET d == face_distance(known_encodings, face_encoding)
    IN  [i \in 1..Len(d) |-> d[i] <= tolerance]

\* the first position of the maximum
argmin_is_argmax(d) ==
    CHOOSE i \in 1..Len(d) :
        /\ \A j \in 1..Len(d) : d[i] >= d[j]
        /\ \A j \in 1..(i - 1) : d[j] < d[i]

\* the last position of the minimum
argmin_last(d) ==
    CHOOSE i \in 1..Len(d) :
        /\ \A j \in 1..Len(d) : d[i] <= d[j]
        /\ \A j \in (i + 1)..Len(d) : d[j] > d[i]

\* np.argmin: the first position of the minimum (1-based here)
argmin(d) ==
    CHOOSE i \in 1..Len(d) :
        /\ \A j \in 1..Len(d) : d[i] <= d[j]
        /\ \A j \in 1..(i - 1) : d[j] > d[i]

\* ------------------------------------------------------------------- state

VARIABLES
    users,           \* the ids of the rows of table users
    next_user_id,    \* the AUTOINCREMENT sequence of table users
    face_encodings,  \* the rows of table face_encodings, in insertion order
    files,           \* the image artifacts in STORAGE['face_images_dir']
    auth_logs,       \* the rows of table auth_logs, in insertion order
    threshold,       \* FACE_RECOGNITION['threshold']
    auth,            \* the authenticate_face call in flight: its locals and position
    reg,             \* the register_face calls in flight, per request slot
    n_calls,         \* how many calls were started
    before,          \* history: the store when the register_face call in flight began
    cf,              \* compare_faces applied to drawn arguments: the arguments, the results
    vf,              \* validate_face_image applied to a drawn image: the image, the result
    gue,             \* get_user_encodings applied to a drawn argument: the argument, the result
    inactive,        \* the ids of the rows of table users with is_active = 0
    login            \* the POST /auth/login request in flight: its position and response

vars ==
    <<users, next_user_id, face_encodings, files, auth_logs, threshold,
      auth, reg, n_calls, before, cf, vf, gue, inactive, login>>

\* the variables of the applications of single functions to drawn arguments
pure == <<cf, vf, gue>>

\* the variables of the /auth/login and PUT /users/<id> requests
web == <<inactive, login>>

\* the request slots that run register_face (two, so that two enrollments can race)
RegSlots == {"r1", "r2"}

IdleAuth ==
    [pc |-> "idle", image |-> None, face_encoding |-> <<>>, users |-> <<>>, i |-> 1,
     best_match_user_id |-> None, best_match_confidence |-> 0, threshold |-> 0,
     raised |-> None, result |-> None,
     seen |-> <<>>, logged |-> 0, log_failed |-> FALSE]

IdleReg ==
    [pc |-> "idle", via |-> "api", user_id |-> 0, image |-> None,
     face_encoding |-> <<>>, image_path |-> None, raised |-> None,
     returned |-> None, response |-> None]

NoSnapshot == [rows |-> <<>>, files |-> {}]

\* no application of compare_faces
NoCompare == [known_encodings |-> None, face_encoding |-> None, out |-> <<>>]

\* no application of validate_face_image
NoValidate == [image |-> None, out |-> None, single |-> None]

\* the empty store, no call in flight
\* no login request in flight
NoLogin == [pc |-> "idle", status |-> 0, message |-> "", tokens |-> None]

InitStore ==
    /\ users = {}
    /\ inactive = {}
    /\ login = NoLogin
    /\ next_user_id = 1
    /\ face_encodings = <<>>
    /\ files = {}
    /\ auth_logs = <<>>
    /\ threshold \in Thresholds
    /\ auth = IdleAuth
    /\ reg = [p \in RegSlots |-> IdleReg]
    /\ n_calls = 0
    /\ before = NoSnapshot

Init ==
    /\ InitStore
    /\ cf = NoCompare
    /\ vf = NoValidate
    /\ gue = None

\* ------------------------------------------------------------ the database

\* User.get_by_id(user_id): the user, or None
User_get_by_id(user_id) == IF user_id \in users THEN Some(user_id) ELSE None

\* User.get_all(): SELECT * FROM users names no order, so any order of the rows
User_get_all == Orderings(users)

\* the rows of face_encodings of one user, in store order
RowsOf(user_id) == SelectSeq(face_encodings, LAMBDA row : row.user_id = user_id)

\* FaceEncoding.count_by_user_id(user_id)
count_by_user_id(user_id) == Len(RowsOf(user_id))

\* the rows of one user, the newest first
FaceEncoding_get_by_user_id_newest_first(user_id) ==
    LET rows == RowsOf(user_id)
    IN  [i \in 1..Len(rows) |->
            [user_id |-> rows[Len(rows) + 1 - i].user_id,
             encoding |-> json_loads(rows[Len(rows) + 1 - i].encoding),
             image_path |-> rows[Len(rows) + 1 - i].image_path]]

\* FaceEncoding.get_by_user_id(user_id): the objects, encoding parsed from the blob
FaceEncoding_get_by_user_id(user_id) ==
    LET rows == RowsOf(user_id)
    IN  [i \in 1..Len(rows) |->
            [user_id |-> rows[i].user_id, encoding |-> json_loads(rows[i].encoding),
             image_path |-> rows[i].image_path]]

\* the INSERT of FaceEncoding.create violates the foreign key when the user is gone
FaceEncoding_create_fails(user_id, dbError) == dbError \/ user_id \notin users

\* the INSERT of AuthLog.create violates the foreign key when a named user is gone
AuthLog_create_fails(user_id, dbError) ==
    dbError \/ (user_id # None /\ user_id[1] \notin users)

\* the delete with no cascade on face_encodings
DeleteUserRow_no_cascade(user_id) ==
    /\ users' = users \ {user_id}
    /\ face_encodings' = face_encodings
    /\ auth_logs' = [k \in 1..Len(auth_logs) |->
                        IF auth_logs[k].user_id = Some(user_id)
                        THEN [auth_logs[k] EXCEPT !.user_id = None]
                        ELSE auth_logs[k]]

\* DELETE FROM users WHERE id = ?: ON DELETE CASCADE on face_encodings,
\* ON DELETE SET NULL on auth_logs
DeleteUserRow(user_id) ==
    /\ users' = users \ {user_id}
    /\ face_encodings' = SelectSeq(face_encodings, LAMBDA row : row.user_id # user_id)
    /\ auth_logs' = [k \in 1..Len(auth_logs) |->
                        IF auth_logs[k].user_id = Some(user_id)
                        THEN [auth_logs[k] EXCEPT !.user_id = None]
                        ELSE auth_logs[k]]

\* User.delete(self): self.id is read first; a self that is no User object has
\* no attribute id, and the call raises AttributeError before any statement runs
User_delete(self) ==
    IF self.type = "User"
    THEN [raised |-> None, deletes |-> Some(self.id)]
    ELSE [raised |-> Some("AttributeError"), deletes |-> None]

UserObject(user_id) == [type |-> "User", id |-> user_id]

PyInt(n) == [type |-> "int", id |-> n]

\* ------------------------------------------------------ get_user_encodings

\* an argument that is no int: None, or a str
NoInt(type) == [type |-> type, id |-> 0]

\* get_user_encodings(user_id), lines 21-55: the encodings, or the ValueError
\* raised; the argument is a Python value, PyInt(n) or no int
get_user_encodings(user_id) ==
    IF user_id.type # "int" \/ user_id.id = 0
    THEN [raised |-> Some("ValueError"), value |-> <<>>]
    ELSE IF User_get_by_id(user_id.id) = None
    THEN [raised |-> Some("ValueError"), value |-> <<>>]
    ELSE LET objs == FaceEncoding_get_by_user_id(user_id.id)
         IN  IF objs = <<>> THEN [raised |-> None, value |-> <<>>]
             ELSE [raised |-> None, value |-> [i \in 1..Len(objs) |-> objs[i].encoding]]

\* get_recognition_threshold()
get_recognition_threshold == threshold


\* ------------------------------------------------------------ compare_faces

\* The arguments of compare_faces as Python values: the type, and the items
\* of a sequence type.  A list and an ndarray of the same numbers have the
\* same items; np.array(list) (lines 102-110) keeps them.
PyNone == [type |-> "NoneType", items |-> <<>>]

PyStr == [type |-> "str", items |-> <<"x">>]

PyTuple(items) == [type |-> "tuple", items |-> items]

PyList(items) == [type |-> "list", items |-> items]

ndarray(items) == [type |-> "ndarray", items |-> items]

\* bool(v) of None and of the built-in sequence types
Truthy(v) == v.type # "NoneType" /\ v.items # <<>>

\* the first test without its emptiness half
InvalidKnownEncodings_type_only(known_encodings) == known_encodings.type # "list"

\* line 89: not known_encodings or not isinstance(known_encodings, list).
\* bool() of an ndarray of several elements raises ValueError itself, and an
\* ndarray passes no isinstance(..., list): ValueError on both ways.
InvalidKnownEncodings(known_encodings) ==
    \/ known_encodings.type = "ndarray"
    \/ ~Truthy(known_encodings)
    \/ known_encodings.type # "list"

\* line 93: face_encoding is None or not isinstance(face_encoding, (list, np.ndarray))
InvalidFaceEncoding(face_encoding) ==
    \/ face_encoding.type = "NoneType"
    \/ face_encoding.type \notin {"list", "ndarray"}

\* what compare_faces hands back: the exception raised or the returned
\* triple (best_match_index 0-based as in Python), and the distances it had
\* computed, None when face_distance was not called
CompareOutcome(raised, match_found, best_match_index, confidence, face_distances) ==
    [raised |-> raised, match_found |-> match_found,
     best_match_index |-> best_match_index, confidence |-> confidence,
     face_distances |-> face_distances]

\* compare_faces(known_encodings, face_encoding, tolerance=None), lines 66-133
compare_faces(known_encodings, face_encoding, tolerance_arg) ==
    LET tolerance == IF tolerance_arg = None THEN get_recognition_threshold
                     ELSE tolerance_arg[1]
    IN  IF InvalidKnownEncodings(known_encodings)
        THEN CompareOutcome(Some("ValueError"), FALSE, -1, 0, None)
        ELSE IF InvalidFaceEncoding(face_encoding)
        THEN CompareOutcome(Some("ValueError"), FALSE, -1, 0, None)
        ELSE IF ~Truthy(known_encodings)
        THEN CompareOutcome(None, FALSE, -1, 0, None)
        ELSE LET matches == library_compare_faces(known_encodings.items,
                                                  face_encoding.items, tolerance)
                 face_distances == face_distance(known_encodings.items,
                                                 face_encoding.items)
             IN  IF Len(face_distances) > 0
                 THEN LET best == argmin(face_distances)
                          best_match_distance == face_distances[best]
                          confidence == Max(0, One - best_match_distance)
                          match_found == IF Len(matches) > 0 THEN matches[best]
                                         ELSE FALSE
                      IN  CompareOutcome(None, match_found, best - 1, confidence,
                                         Some(face_distances))
                 ELSE CompareOutcome(None, FALSE, -1, 0, Some(face_distances))


\* ------------------------------------------------------------ register_face

\* register_face lines 152-160: the user_id must be a non-zero int of an existing user
RegisterEntry(user_id) ==
    IF user_id = 0 THEN Some("ValueError: Invalid user_id")
    ELSE IF User_get_by_id(user_id) = None THEN Some("ValueError: User not found")
    ELSE None

\* the capacity test with > where the code has >=
CapacityReached_off_by_one(current_faces_count, max_faces) == current_faces_count > max_faces

\* register_face line 166: the capacity test
CapacityReached(current_faces_count, max_faces) == current_faces_count >= max_faces

\* the handler without the wrapping of ValueError as ImageQualityError
ExtractionHandler_unwrapped(exc) == exc

\* register_face lines 171-178 and authenticate_face lines 225-232: what is raised
\* for an exception of extract_face_encoding
ExtractionHandler(exc) ==
    IF exc \in {"FaceDetectionError", "MultipleFacesError"} THEN exc
    ELSE IF exc = "ValueError" THEN "ImageQualityError"
    ELSE exc

\* register_face lines 185-188: a file name no other artifact has
FreshPath == CHOOSE n \in 1..(Cardinality(files) + 1) : n \notin files

Raise(call, exc) == [call EXCEPT !.pc = "raised", !.raised = Some(exc)]

\* a request to POST /register: register_face(user_id, image), lines 152-160
RegisterStart(p, user_id, image) ==
    /\ reg[p].pc = "idle"
    /\ LET call == [IdleReg EXCEPT !.user_id = user_id, !.image = Some(image)]
           exc == RegisterEntry(user_id)
       IN  reg' = [reg EXCEPT ![p] =
                IF exc # None THEN Raise(call, exc[1])
                ELSE [call EXCEPT !.pc = "count"]]
    /\ n_calls' = n_calls + 1
    /\ UNCHANGED <<users, next_user_id, face_encodings, files, auth_logs, threshold,
                   auth>>

\* lines 162-168: the count is read and compared with the cap
RegisterCount(p) ==
    /\ reg[p].pc = "count"
    /\ LET max_faces == max_faces_per_user
           current_faces_count == count_by_user_id(reg[p].user_id)
       IN  reg' = [reg EXCEPT ![p] =
                IF CapacityReached(current_faces_count, max_faces)
                THEN Raise(reg[p], "ValueError: maximum number of faces")
                ELSE [reg[p] EXCEPT !.pc = "extract"]]
    /\ UNCHANGED <<users, next_user_id, face_encodings, files, auth_logs, threshold,
                   auth, n_calls>>

\* lines 170-192: the encoding is extracted and the image file written
RegisterExtract(p) ==
    /\ reg[p].pc = "extract"
    /\ LET extracted == extract_face_encoding(reg[p].image[1])
       IN  IF extracted.raised # None
           THEN /\ reg' = [reg EXCEPT ![p] =
                        Raise(reg[p], ExtractionHandler(extracted.raised[1]))]
                /\ files' = files
           ELSE /\ reg' = [reg EXCEPT ![p] =
                        [reg[p] EXCEPT !.pc = "create",
                                       !.face_encoding = extracted.value,
                                       !.image_path = Some(FreshPath)]]
                /\ files' = files \cup {FreshPath}
    /\ UNCHANGED <<users, next_user_id, face_encodings, auth_logs, threshold,
                   auth, n_calls>>

\* the handler without the removal of the image file
RemoveImage_keeps(artifacts, image_path) == artifacts

\* lines 199-202: os.remove(image_path) when the file exists
RemoveImage(artifacts, image_path) == artifacts \ {image_path}

\* the INSERT that makes room: the oldest row of the user goes
FaceEncoding_create_evicts(rows, row) ==
    LET own == SelectSeq(rows, LAMBDA r : r.user_id = row.user_id)
    IN  IF own = <<>> THEN Append(rows, row)
        ELSE Append(SelectSeq(rows, LAMBDA r : r # own[1]), row)

\* FaceEncoding.create, models.py lines 269-325: INSERT INTO face_encodings
FaceEncoding_create(rows, row) == Append(rows, row)

\* lines 194-204: FaceEncoding.create; on an error the image file is removed
RegisterCreate(p, dbError) ==
    /\ reg[p].pc = "create"
    /\ LET row == [user_id |-> reg[p].user_id,
                   encoding |-> encoding_blob(tolist(reg[p].face_encoding)),
                   image_path |-> reg[p].image_path[1]]
       IN  IF FaceEncoding_create_fails(reg[p].user_id, dbError)
           THEN /\ files' = RemoveImage(files, reg[p].image_path[1])
                /\ face_encodings' = face_encodings
                /\ reg' = [reg EXCEPT ![p] = Raise(reg[p], "sqlite3.Error")]
           ELSE /\ files' = files
                /\ face_encodings' = FaceEncoding_create(face_encodings, row)
                /\ reg' = [reg EXCEPT ![p] =
                        [reg[p] EXCEPT !.pc = "returned",
                                       !.returned = Some([row EXCEPT
                                           !.encoding = json_loads(row.encoding)])]]
    /\ UNCHANGED <<users, next_user_id, auth_logs, threshold, auth, n_calls>>

\* the response of POST /register is delivered and the slot is free again
RegisterDone(p) ==
    /\ reg[p].via = "api"
    /\ reg[p].pc \in {"returned", "raised"}
    /\ reg' = [reg EXCEPT ![p] = IdleReg]
    /\ UNCHANGED <<users, next_user_id, face_encodings, files, auth_logs, threshold,
                   auth, n_calls>>


\* --------------------------------------------------- users and the sign-up

\* POST /users (create_user): User.create inserts a row with the next id
CreateUser ==
    /\ next_user_id <= MaxUsers
    /\ users' = users \cup {next_user_id}
    /\ next_user_id' = next_user_id + 1
    /\ UNCHANGED <<face_encodings, files, auth_logs, threshold, auth, reg, n_calls>>

\* DELETE /users/<id> (delete_user): User.get_by_id, then user.delete()
DeleteUser(user_id) ==
    /\ User_get_by_id(user_id) # None
    /\ LET done == User_delete(UserObject(user_id))
       IN  /\ done.raised = None
           /\ DeleteUserRow(done.deletes[1])
    /\ UNCHANGED <<next_user_id, files, threshold, auth, reg, n_calls>>

\* register_user_with_face line 113: the compensating call, User.delete(user.id)
CompensatingDelete(user_id) == User_delete(PyInt(user_id))

\* POST /register-user-with-face, lines 91-103: User.create
SignupStart(p, image) ==
    /\ reg[p].pc = "idle"
    /\ next_user_id <= MaxUsers
    /\ users' = users \cup {next_user_id}
    /\ next_user_id' = next_user_id + 1
    /\ reg' = [reg EXCEPT ![p] =
            [IdleReg EXCEPT !.via = "signup", !.pc = "entry",
                            !.user_id = next_user_id, !.image = Some(image)]]
    /\ n_calls' = n_calls + 1
    /\ UNCHANGED <<face_encodings, files, auth_logs, threshold, auth>>

\* line 107: register_face(user.id, image) is entered, lines 152-160
SignupRegisterFace(p) ==
    /\ reg[p].pc = "entry"
    /\ LET exc == RegisterEntry(reg[p].user_id)
       IN  reg' = [reg EXCEPT ![p] =
                IF exc # None THEN Raise(reg[p], exc[1])
                ELSE [reg[p] EXCEPT !.pc = "count"]]
    /\ UNCHANGED <<users, next_user_id, face_encodings, files, auth_logs, threshold,
                   auth, n_calls>>

\* lines 108-145: 201 when register_face returned; when it raised, the
\* compensating delete (its own exception is caught and logged) and 400
SignupFinish(p) ==
    /\ reg[p].via = "signup"
    /\ reg[p].pc \in {"returned", "raised"}
    /\ IF reg[p].pc = "returned"
       THEN /\ reg' = [reg EXCEPT ![p] = [reg[p] EXCEPT !.pc = "responded",
                                                        !.response = Some(201)]]
            /\ UNCHANGED <<users, face_encodings, auth_logs>>
       ELSE /\ reg' = [reg EXCEPT ![p] = [reg[p] EXCEPT !.pc = "responded",
                                                        !.response = Some(400)]]
            /\ LET done == CompensatingDelete(reg[p].user_id)
               IN  IF done.raised = None
                   THEN DeleteUserRow(done.deletes[1])
                   ELSE UNCHANGED <<users, face_encodings, auth_logs>>
    /\ UNCHANGED <<next_user_id, files, threshold, auth, n_calls>>

\* the response of the sign-up is delivered and the slot is free again
SignupDone(p) ==
    /\ reg[p].pc = "responded"
    /\ reg' = [reg EXCEPT ![p] = IdleReg]
    /\ UNCHANGED <<users, next_user_id, face_encodings, files, auth_logs, threshold,
                   auth, n_calls>>

\* -------------------------------------------------------- authenticate_face

\* the scan without the test for an empty list
SkipUser_never(user_encodings) == FALSE

\* line 249: an identity without encodings is skipped
SkipUser(user_encodings) == user_encodings = <<>>

\* the first identity that matches wins
IsBetterMatch_first_wins(match_found, confidence, best_match_confidence) ==
    match_found /\ best_match_confidence = 0

\* the last of several equally good matches wins
IsBetterMatch_last_wins(match_found, confidence, best_match_confidence) ==
    match_found /\ confidence >= best_match_confidence

\* line 259: a match replaces the best one only with a strictly higher confidence
IsBetterMatch(match_found, confidence, best_match_confidence) ==
    match_found /\ confidence > best_match_confidence

\* the best confidence is tracked whether or not the identity matched
BestAfter_any_confidence(best, user_id, match_found, confidence) ==
    IF match_found /\ confidence > best.confidence
    THEN [user_id |-> Some(user_id), confidence |-> confidence]
    ELSE [best EXCEPT !.confidence = Max(best.confidence, confidence)]

\* lines 259-261: the best match after one identity was compared
BestAfter(best, user_id, match_found, confidence) ==
    IF IsBetterMatch(match_found, confidence, best.confidence)
    THEN [user_id |-> Some(user_id), confidence |-> confidence]
    ELSE best

\* lines 264 and 277: the returned triple
AuthResult(best_match_user_id, best_match_confidence) ==
    [success |-> best_match_user_id # None,
     user_id |-> best_match_user_id,
     confidence |-> best_match_confidence]

\* the record with the confidence written on failure too
AuditRecord_always_confidence(best_match_user_id, best_match_confidence) ==
    [user_id |-> best_match_user_id,
     success |-> best_match_user_id # None,
     confidence |-> Some(best_match_confidence)]

\* lines 268-272: the arguments of AuthLog.create
AuditRecord(best_match_user_id, best_match_confidence) ==
    LET success == best_match_user_id # None
    IN  [user_id |-> best_match_user_id,
         success |-> success,
         confidence |-> IF success THEN Some(best_match_confidence) ELSE None]

\* the exception of AuthLog.create propagates
AuditFailureRaises_propagates == TRUE

\* lines 274-275: an exception of AuthLog.create is logged, not raised again
AuditFailureRaises == FALSE

\* the threshold is read again for every comparison
ScanTolerance_rereads(call_threshold) == get_recognition_threshold

\* line 254: tolerance=threshold, the local read at line 242
ScanTolerance(call_threshold) == call_threshold

\* lines 224-242: the probe is extracted, the users are listed, the threshold read
AuthStart(image) ==
    /\ auth.pc = "idle"
    /\ n_calls' = n_calls + 1
    /\ LET call == [IdleAuth EXCEPT !.image = Some(image)]
           extracted == extract_face_encoding(image)
       IN  IF extracted.raised # None
           THEN auth' = Raise(call, ExtractionHandler(extracted.raised[1]))
           ELSE \E all \in User_get_all :
                   IF all = <<>>
                   THEN auth' = [call EXCEPT !.pc = "returned",
                                             !.face_encoding = extracted.value,
                                             !.result = Some([success |-> FALSE,
                                                              user_id |-> None,
                                                              confidence |-> 0])]
                   ELSE auth' = [call EXCEPT !.pc = "scan",
                                             !.face_encoding = extracted.value,
                                             !.users = all,
                                             !.threshold = get_recognition_threshold]
    /\ UNCHANGED <<users, next_user_id, face_encodings, files, auth_logs, threshold,
                   reg>>

\* the loop that stays on the same user
NextIndex_stuck(i) == i

\* line 245: for user in users, the next one
NextIndex(i) == i + 1

\* lines 245-261: one iteration of the scan
AuthScan ==
    /\ auth.pc = "scan"
    /\ LET user_id == auth.users[auth.i]
           got == get_user_encodings(PyInt(user_id))
           user_encodings == got.value
           skipped == SkipUser(user_encodings)
           tolerance == ScanTolerance(auth.threshold)
           cmp == compare_faces(PyList(user_encodings), ndarray(auth.face_encoding),
                                 Some(tolerance))
           best == BestAfter([user_id |-> auth.best_match_user_id,
                              confidence |-> auth.best_match_confidence],
                             user_id, cmp.match_found, cmp.confidence)
           entry == [user_id |-> user_id, n |-> Len(user_encodings),
                     compared |-> ~skipped,
                     tolerance |-> IF skipped THEN None ELSE Some(tolerance)]
           next == [auth EXCEPT !.i = NextIndex(auth.i),
                                !.pc = IF auth.i = Len(auth.users) THEN "log" ELSE "scan"]
       IN  auth' =
             IF got.raised # None THEN Raise(auth, got.raised[1])
             ELSE IF skipped THEN [next EXCEPT !.seen = Append(auth.seen, entry)]
             ELSE IF cmp.raised # None
                  THEN Raise([auth EXCEPT !.seen = Append(auth.seen, entry)],
                             cmp.raised[1])
             ELSE [next EXCEPT !.seen = Append(auth.seen, entry),
                               !.best_match_user_id = best.user_id,
                               !.best_match_confidence = best.confidence]
    /\ UNCHANGED <<users, next_user_id, face_encodings, files, auth_logs, threshold,
                   reg, n_calls>>

\* the INSERT as a replacement of the table
AuthLog_create_replaces(logs, record) == <<record>>

\* AuthLog.create, models.py lines 412-460: INSERT INTO auth_logs
AuthLog_create(logs, record) == Append(logs, record)

\* lines 263-277: the decision, the audit record, the return
AuthLogAndReturn(dbError) ==
    /\ auth.pc = "log"
    /\ LET result == AuthResult(auth.best_match_user_id, auth.best_match_confidence)
           record == AuditRecord(auth.best_match_user_id, auth.best_match_confidence)
       IN  IF AuthLog_create_fails(record.user_id, dbError)
           THEN /\ auth_logs' = auth_logs
                /\ auth' = IF AuditFailureRaises
                           THEN Raise([auth EXCEPT !.log_failed = TRUE], "sqlite3.Error")
                           ELSE [auth EXCEPT !.pc = "returned", !.log_failed = TRUE,
                                             !.result = Some(result)]
           ELSE /\ auth_logs' = AuthLog_create(auth_logs, record)
                /\ auth' = [auth EXCEPT !.pc = "returned", !.logged = auth.logged + 1,
                                        !.result = Some(result)]
    /\ UNCHANGED <<users, next_user_id, face_encodings, files, threshold,
                   reg, n_calls>>

\* the caller has the result and the next authentication can start
AuthDone ==
    /\ auth.pc \in {"returned", "raised"}
    /\ auth' = IdleAuth
    /\ UNCHANGED <<users, next_user_id, face_encodings, files, auth_logs, threshold,
                   reg, n_calls>>

\* the configured threshold is changed (set_threshold(value) of the matching
\* interface; FACE_RECOGNITION['threshold'] is a module-level dict entry)
SetThreshold(value) ==
    /\ value # threshold
    /\ threshold' = value
    /\ UNCHANGED <<users, next_user_id, face_encodings, files, auth_logs,
                   auth, reg, n_calls>>

\* --------------------------------------- compare_faces on drawn arguments

\* the candidate lists: every list of at most MaxCandidates encodings, and
\* arguments that are no list
KnownInputs ==
    {PyList(l) : l \in UNION {[1..n -> {<<c>> : c \in CandidateCoordinates}] :
                                n \in 0..MaxCandidates}}
    \cup {PyNone, PyStr, PyTuple(<<<<0>>>>), ndarray(<<<<0>>, <<2>>>>)}

\* the probes: arrays, a list, and arguments that are neither
FaceEncodingInputs ==
    {ndarray(<<c>>) : c \in CompareProbeCoordinates}
    \cup {PyList(<<2>>), PyNone, PyStr}

\* the tolerance argument: left out (None) or given
ToleranceArgs == {None} \cup {Some(t) : t \in Thresholds}

\* the tolerance compare_faces works with, lines 86-87
EffectiveTolerance(tolerance_arg) ==
    IF tolerance_arg = None THEN get_recognition_threshold ELSE tolerance_arg[1]

InitCompare ==
    /\ InitStore
    /\ \E k \in KnownInputs, f \in FaceEncodingInputs :
          cf = [known_encodings |-> k, face_encoding |-> f, out |-> <<>>]
    /\ vf = NoValidate
    /\ gue = None

\* compare_faces(known_encodings, face_encoding, tolerance) is applied and
\* its outcome kept, per tolerance argument
CompareFacesCall(tolerance_arg) ==
    /\ tolerance_arg \notin DOMAIN cf.out
    /\ cf' = [cf EXCEPT !.out =
                (tolerance_arg :> compare_faces(cf.known_encodings, cf.face_encoding,
                                                tolerance_arg)) @@ cf.out]
    /\ UNCHANGED <<users, next_user_id, face_encodings, files, auth_logs, threshold,
                   auth, reg, n_calls, before, vf, gue, web>>

NextCompare == \E tolerance_arg \in ToleranceArgs : CompareFacesCall(tolerance_arg)

SpecCompare == InitCompare /\ [][NextCompare]_vars

\* ------------------------------------------------------ validate_face_image

\* An image as validate_face_image sees it: the Python type of the argument,
\* shape[0] and shape[1], the mean of the grayscale reduction (np.mean, line
\* 118, in whole gray levels), and the boxes face_recognition.face_locations
\* finds in it, each (top, right, bottom, left).
Image(height, width, brightness, faces) ==
    [type |-> "ndarray", height |-> height, width |-> width,
     brightness |-> brightness, faces |-> faces]

\* an argument that is no image: None, or a str
NoImage(type) == [type |-> type, height |-> 0, width |-> 0, brightness |-> 0,
                  faces |-> <<>>]

Box(top, left, face_height, face_width) ==
    [top |-> top, right |-> left + face_width, bottom |-> top + face_height,
     left |-> left]

\* detect_faces(image), lines 27-59: the boxes, or the exception raised
detect_faces(image) ==
    IF image.type # "ndarray" THEN [raised |-> Some("ValueError"), value |-> <<>>]
    ELSE IF image.faces = <<>>
    THEN [raised |-> Some("FaceDetectionError"), value |-> <<>>]
    ELSE [raised |-> None, value |-> image.faces]

\* the first box, however many were found
detect_single_face_first_of_many(image) ==
    LET found == detect_faces(image)
    IN  IF found.raised # None THEN found
        ELSE [raised |-> None, value |-> <<found.value[1]>>]

\* detect_single_face(image), lines 61-85: the one box, or the exception raised
detect_single_face(image) ==
    LET found == detect_faces(image)
        face_locations == found.value
    IN  IF found.raised # None THEN found
        ELSE IF Len(face_locations) > 1
        THEN [raised |-> Some("MultipleFacesError"), value |-> <<>>]
        ELSE [raised |-> None, value |-> <<face_locations[1]>>]

\* line 106: the size test
ImageTooSmall(image) == image.height < 100 \/ image.width < 100

\* the ratio test that rejects a face of exactly 20%
FaceTooSmall_strict(image, box) ==
    \/ 5 * (box.bottom - box.top) <= image.height
    \/ 5 * (box.right - box.left) <= image.width

\* lines 141-148: face_height < shape[0] * 0.2 or face_width < shape[1] * 0.2
\* (n * 0.2 in floating point orders against every integer as n / 5 does)
FaceTooSmall(image, box) ==
    \/ 5 * (box.bottom - box.top) < image.height
    \/ 5 * (box.right - box.left) < image.width

\* lines 153-155: the margin test
TooCloseToEdge(image, box) ==
    \/ box.top < edge_margin
    \/ box.left < edge_margin
    \/ box.bottom > image.height - edge_margin
    \/ box.right > image.width - edge_margin

\* what validate_face_image hands back: the exception raised or the pair
\* (is_valid, message), and whether detect_faces was called
Verdict(raised, is_valid, message, detector_called) ==
    [raised |-> raised, is_valid |-> is_valid, message |-> message,
     detector_called |-> detector_called]

\* the brightness tests before the size test
validate_face_image_brightness_first(image) ==
    IF image.type # "ndarray" THEN Verdict(Some("ValueError"), FALSE, "", FALSE)
    ELSE IF image.brightness < 50 THEN Verdict(None, FALSE, "Image is too dark", FALSE)
    ELSE IF image.brightness > 200
    THEN Verdict(None, FALSE, "Image is too bright", FALSE)
    ELSE IF ImageTooSmall(image) THEN Verdict(None, FALSE, "Image is too small", FALSE)
    ELSE LET found == detect_faces(image)
             face_locations == found.value
         IN  IF found.raised = Some("FaceDetectionError")
             THEN Verdict(None, FALSE, "No face detected in the image", TRUE)
             ELSE IF found.raised # None THEN Verdict(found.raised, FALSE, "", TRUE)
             ELSE IF Len(face_locations) > 1
             THEN Verdict(None, FALSE, "Multiple faces detected in the image", TRUE)
             ELSE IF FaceTooSmall(image, face_locations[1])
             THEN Verdict(None, FALSE, "Face is too small in the image", TRUE)
             ELSE IF TooCloseToEdge(image, face_locations[1])
             THEN Verdict(None, FALSE, "Face is too close to the edge of the image", TRUE)
             ELSE Verdict(None, TRUE, "Image is valid for face recognition", TRUE)

\* validate_face_image(image), lines 87-160
validate_face_image(image) ==
    IF image.type # "ndarray" THEN Verdict(Some("ValueError"), FALSE, "", FALSE)
    ELSE IF ImageTooSmall(image) THEN Verdict(None, FALSE, "Image is too small", FALSE)
    ELSE IF image.brightness < 50 THEN Verdict(None, FALSE, "Image is too dark", FALSE)
    ELSE IF image.brightness > 200
    THEN Verdict(None, FALSE, "Image is too bright", FALSE)
    ELSE LET found == detect_faces(image)
             face_locations == found.value
         IN  IF found.raised = Some("FaceDetectionError")
             THEN Verdict(None, FALSE, "No face detected in the image", TRUE)
             ELSE IF found.raised # None THEN Verdict(found.raised, FALSE, "", TRUE)
             ELSE IF Len(face_locations) > 1
             THEN Verdict(None, FALSE, "Multiple faces detected in the image", TRUE)
             ELSE IF FaceTooSmall(image, face_locations[1])
             THEN Verdict(None, FALSE, "Face is too small in the image", TRUE)
             ELSE IF TooCloseToEdge(image, face_locations[1])
             THEN Verdict(None, FALSE, "Face is too close to the edge of the image", TRUE)
             ELSE Verdict(None, TRUE, "Image is valid for face recognition", TRUE)

\* the sides of the drawn images: 50 and 99 below the minimum, 100 on it
ImageSides == {50, 99, 100, 200}

\* the mean gray levels of the drawn images, around both limits
Brightnesses == {0, 49, 50, 150, 200, 201, 250}

\* the sides of a face box in an image of side n: one below 20%, the least
\* of 20% or more, and the two that end on and one past the margin
FaceSides(n) == {(n + 4) \div 5 - 1, (n + 4) \div 5, n - 2 * edge_margin,
                 n - 2 * edge_margin + 1}

\* the boxes of a face in an image: on and one inside the top and left margin
Boxes(height, width) ==
    {Box(top, left, fh, fw) :
        top \in {edge_margin - 1, edge_margin}, left \in {edge_margin - 1, edge_margin},
        fh \in FaceSides(height), fw \in FaceSides(width)}

\* what the detector finds: nothing, one face, or the same centred face
\* several times over
FaceLists(height, width) ==
    {<<>>} \cup {<<b>> : b \in Boxes(height, width)}
    \cup {[k \in 1..n |-> Box(edge_margin, edge_margin, height - 2 * edge_margin,
                              width - 2 * edge_margin)] : n \in 2..MaxFaces}

ValidateInputs ==
    {NoImage("NoneType"), NoImage("str")}
    \cup UNION {UNION {{Image(h, w, b, f) : f \in FaceLists(h, w)} :
                         b \in Brightnesses} : h \in ImageSides, w \in ImageSides}

InitValidate ==
    /\ InitStore
    /\ threshold = DefaultThreshold
    /\ cf = NoCompare
    /\ \E image \in ValidateInputs :
          vf = [image |-> Some(image), out |-> None, single |-> None]
    /\ gue = None

\* validate_face_image(image) is applied and its outcome kept
ValidateFaceImageCall ==
    /\ vf.image # None
    /\ vf.out = None
    /\ vf' = [vf EXCEPT !.out = Some(validate_face_image(vf.image[1]))]
    /\ UNCHANGED <<users, next_user_id, face_encodings, files, auth_logs, threshold,
                   auth, reg, n_calls, before, cf, gue, web>>

\* detect_single_face(image) is applied to the same image and its outcome kept
DetectSingleFaceCall ==
    /\ vf.image # None
    /\ vf.single = None
    /\ vf' = [vf EXCEPT !.single = Some(detect_single_face(vf.image[1]))]
    /\ UNCHANGED <<users, next_user_id, face_encodings, files, auth_logs, threshold,
                   auth, reg, n_calls, before, cf, gue, web>>

NextValidate ==
    \/ ValidateFaceImageCall
    \/ DetectSingleFaceCall

SpecValidate == InitValidate /\ [][NextValidate]_vars

\* ----------------------------------------------------------- specifications

\* the arguments get_user_encodings is applied to: ints from -1 to one past
\* the last id, None and a str
UserIdArgs == {PyInt(n) : n \in -1..(MaxUsers + 1)} \cup {NoInt("NoneType"), NoInt("str")}

\* get_user_encodings(user_id) is applied to the store as it is
GetUserEncodingsCall(user_id) ==
    /\ gue = None
    /\ gue' = Some([user_id |-> user_id, out |-> get_user_encodings(user_id)])
    /\ UNCHANGED <<users, next_user_id, face_encodings, files, auth_logs, threshold,
                   auth, reg, n_calls, before, cf, vf, web>>

\* the caller has the result
GetUserEncodingsDone ==
    /\ gue # None
    /\ gue' = None
    /\ UNCHANGED <<users, next_user_id, face_encodings, files, auth_logs, threshold,
                   auth, reg, n_calls, before, cf, vf, web>>

\* no call is in flight
Quiescent ==
    /\ auth.pc = "idle"
    /\ \A p \in RegSlots : reg[p].pc = "idle"
    /\ gue = None

\* the store as register_face finds it on entry
Snapshot == before' = [rows |-> face_encodings, files |-> files]

\* the call is over
Forget == before' = NoSnapshot

\* requests served one after another
NextSeq ==
    \/ Quiescent /\ CreateUser /\ UNCHANGED <<before, pure, web>>
    \/ Quiescent /\ (\E u \in 1..MaxUsers : DeleteUser(u)) /\ UNCHANGED <<before, pure, web>>
    \/ /\ Quiescent /\ n_calls < MaxCalls
       /\ \E u \in 0..MaxUsers, image \in EnrollImages : RegisterStart("r1", u, image)
       /\ Snapshot /\ UNCHANGED <<pure, web>>
    \/ RegisterCount("r1") /\ UNCHANGED <<before, pure, web>>
    \/ RegisterExtract("r1") /\ UNCHANGED <<before, pure, web>>
    \/ (\E dbError \in BOOLEAN : RegisterCreate("r1", dbError)) /\ UNCHANGED <<before, pure, web>>
    \/ RegisterDone("r1") /\ Forget /\ UNCHANGED <<pure, web>>
    \/ /\ Quiescent /\ n_calls < MaxCalls
       /\ \E image \in EnrollImages : SignupStart("r1", image)
       /\ UNCHANGED <<before, pure, web>>
    \/ SignupRegisterFace("r1") /\ Snapshot /\ UNCHANGED <<pure, web>>
    \/ SignupFinish("r1") /\ UNCHANGED <<before, pure, web>>
    \/ SignupDone("r1") /\ Forget /\ UNCHANGED <<pure, web>>
    \/ /\ Quiescent /\ n_calls < MaxCalls
       /\ \E image \in ProbeImages : AuthStart(image)
       /\ UNCHANGED <<before, pure, web>>
    \/ AuthScan /\ UNCHANGED <<before, pure, web>>
    \/ (\E dbError \in BOOLEAN : AuthLogAndReturn(dbError)) /\ UNCHANGED <<before, pure, web>>
    \/ AuthDone /\ UNCHANGED <<before, pure, web>>
    \/ Quiescent /\ \E user_id \in UserIdArgs : GetUserEncodingsCall(user_id)
    \/ GetUserEncodingsDone

SpecSeq == Init /\ [][NextSeq]_vars


\* a request takes the first free slot
FirstFree(p) == reg[p].pc = "idle" /\ (p = "r2" => reg["r1"].pc # "idle")

\* requests served concurrently: every step of every call in flight interleaves
\* with the steps of the others and with the user management requests
Next ==
    \/ CreateUser /\ UNCHANGED <<before, pure, web>>
    \/ (\E u \in 1..MaxUsers : DeleteUser(u)) /\ UNCHANGED <<before, pure, web>>
    \/ /\ \E p \in RegSlots :
            /\ FirstFree(p)
            /\ n_calls < ConcCalls
            /\ \E u \in 0..MaxUsers, image \in ConcEnrollImages : RegisterStart(p, u, image)
       /\ UNCHANGED <<before, pure, web>>
    \/ (\E p \in RegSlots : RegisterCount(p)) /\ UNCHANGED <<before, pure, web>>
    \/ (\E p \in RegSlots : RegisterExtract(p)) /\ UNCHANGED <<before, pure, web>>
    \/ /\ \E p \in RegSlots, dbError \in BOOLEAN : RegisterCreate(p, dbError)
       /\ UNCHANGED <<before, pure, web>>
    \/ (\E p \in RegSlots : RegisterDone(p)) /\ UNCHANGED <<before, pure, web>>
    \/ /\ \E p \in RegSlots :
            /\ FirstFree(p)
            /\ n_calls < ConcCalls
            /\ \E image \in ConcEnrollImages : SignupStart(p, image)
       /\ UNCHANGED <<before, pure, web>>
    \/ (\E p \in RegSlots : SignupRegisterFace(p)) /\ UNCHANGED <<before, pure, web>>
    \/ (\E p \in RegSlots : SignupFinish(p)) /\ UNCHANGED <<before, pure, web>>
    \/ (\E p \in RegSlots : SignupDone(p)) /\ UNCHANGED <<before, pure, web>>
    \/ /\ n_calls < ConcCalls
       /\ \E image \in ConcProbeImages : AuthStart(image)
       /\ UNCHANGED <<before, pure, web>>
    \/ AuthScan /\ UNCHANGED <<before, pure, web>>
    \/ (\E dbError \in BOOLEAN : AuthLogAndReturn(dbError)) /\ UNCHANGED <<before, pure, web>>
    \/ AuthDone /\ UNCHANGED <<before, pure, web>>

InitDefault == Init /\ threshold = DefaultThreshold

Spec == InitDefault /\ [][Next]_vars


\* ------------------------------------------------------------ POST /auth/login

\* the calls of the login specification
LoginCalls == 3

\* the JSON bodies of the request: no image field, image data that
\* cv2.imdecode cannot decode, and images that decode
NoBody == [image |-> None, decodes |-> FALSE]

UndecodableBody == [image |-> Some(BadImage("ValueError")), decodes |-> FALSE]

ImageBody(image) == [image |-> Some(image), decodes |-> TRUE]

LoginBodies ==
    {NoBody, UndecodableBody}
    \cup {ImageBody(image) : image \in {OkImage(1), BadImage("FaceDetectionError")}}

Response(status, message, tokens) ==
    [pc |-> "done", status |-> status, message |-> message, tokens |-> tokens]

\* AuthService.generate_tokens(user_id): the identity of both tokens is the user id
generate_tokens(user_id) == Some(user_id)

\* user.is_active of a row of table users
is_active(user_id) == user_id \notin inactive

\* the check that lets every existing account in
LoginRefuses_missing_only(user) == user = None

\* line 74: if not user or not user.is_active
LoginRefuses(user) == user = None \/ ~is_active(user[1])

\* lines 34-62: the body is read and decoded, and authenticate_face is called
LoginStart(data) ==
    /\ login.pc = "idle"
    /\ auth.pc = "idle"
    /\ IF data.image = None
       THEN /\ login' = Response(400, "Image data is required", None)
            /\ n_calls' = n_calls + 1
            /\ UNCHANGED <<users, next_user_id, face_encodings, files, auth_logs,
                           threshold, auth, reg>>
       ELSE IF ~data.decodes
       THEN /\ login' = Response(400, "Invalid image data", None)
            /\ n_calls' = n_calls + 1
            /\ UNCHANGED <<users, next_user_id, face_encodings, files, auth_logs,
                           threshold, auth, reg>>
       ELSE /\ login' = [NoLogin EXCEPT !.pc = "auth"]
            /\ AuthStart(data.image[1])
    /\ UNCHANGED inactive

\* lines 62-96 and 98-104: authenticate_face has returned or raised
LoginFinish ==
    /\ login.pc = "auth"
    /\ auth.pc \in {"returned", "raised"}
    /\ login' =
         IF auth.pc = "raised"
         THEN Response(500, "Authentication failed", None)
         ELSE IF ~auth.result[1].success
         THEN Response(401, "Face authentication failed", None)
         ELSE LET user_id == auth.result[1].user_id[1]
                  user == User_get_by_id(user_id)
              IN  IF LoginRefuses(user)
                  THEN Response(401, "User account is not active", None)
                  ELSE Response(200, "Authentication successful",
                                generate_tokens(user_id))
    /\ UNCHANGED <<users, next_user_id, face_encodings, files, auth_logs, threshold,
                   auth, reg, n_calls, inactive>>

\* the response is delivered and the next login can start
LoginDone ==
    /\ login.pc = "done"
    /\ login' = NoLogin
    /\ auth' = IdleAuth
    /\ UNCHANGED <<users, next_user_id, face_encodings, files, auth_logs, threshold,
                   reg, n_calls, inactive>>

\* PUT /users/<id> with an is_active field, users_routes.py lines 184-223:
\* UPDATE users SET ... is_active = ? WHERE id = ?
update_user(user_id, active) ==
    /\ User_get_by_id(user_id) # None
    /\ inactive' = IF active THEN inactive \ {user_id} ELSE inactive \cup {user_id}
    /\ UNCHANGED <<users, next_user_id, face_encodings, files, auth_logs, threshold,
                   auth, reg, n_calls, login>>



\* requests served one after another while another thread changes the threshold
NextThreshold ==
    \/ NextSeq
    \/ (\E value \in Thresholds : SetThreshold(value)) /\ UNCHANGED <<before, pure, web>>

SpecThreshold == InitDefault /\ [][NextThreshold]_vars


\* POST /register and POST /authenticate served concurrently with the user
\* management requests, each request thread scheduled fairly: a call in
\* flight takes its next step sooner or later
StepAuth ==
    /\ \/ AuthScan
       \/ \E dbError \in BOOLEAN : AuthLogAndReturn(dbError)
    /\ UNCHANGED <<before, pure, web>>

StepRegister(p) ==
    /\ \/ RegisterCount(p)
       \/ RegisterExtract(p)
       \/ \E dbError \in BOOLEAN : RegisterCreate(p, dbError)
    /\ UNCHANGED <<before, pure, web>>

\* the user ids of the fair specification
LiveUserIds == {1, 2}

NextLive ==
    \/ next_user_id \in LiveUserIds /\ CreateUser /\ UNCHANGED <<before, pure, web>>
    \/ (\E u \in LiveUserIds : DeleteUser(u)) /\ UNCHANGED <<before, pure, web>>
    \/ /\ \E p \in RegSlots :
            /\ FirstFree(p)
            /\ n_calls < LiveCalls
            /\ \E u \in LiveUserIds, image \in ConcEnrollImages : RegisterStart(p, u, image)
       /\ UNCHANGED <<before, pure, web>>
    \/ /\ n_calls < LiveCalls
       /\ \E image \in ConcProbeImages : AuthStart(image)
       /\ UNCHANGED <<before, pure, web>>
    \/ StepAuth
    \/ \E p \in RegSlots : StepRegister(p)

Fairness ==
    /\ WF_vars(StepAuth)
    /\ \A p \in RegSlots : WF_vars(StepRegister(p))

SpecLive == InitDefault /\ [][NextLive]_vars /\ Fairness

\* logins served while other requests enroll faces and create, update and
\* delete users; the is_active column of a deleted row goes with the row
NextLogin ==
    \/ next_user_id \in LiveUserIds /\ CreateUser /\ UNCHANGED <<before, pure, web>>
    \/ /\ \E u \in LiveUserIds : DeleteUser(u) /\ inactive' = inactive \ {u}
       /\ UNCHANGED <<before, pure, login>>
    \/ /\ \E u \in LiveUserIds, active \in BOOLEAN : update_user(u, active)
       /\ UNCHANGED <<before, pure>>
    \/ /\ n_calls < LoginCalls
       /\ \E u \in LiveUserIds : RegisterStart("r1", u, OkImage(1))
       /\ UNCHANGED <<before, pure, web>>
    \/ StepRegister("r1")
    \/ RegisterDone("r1") /\ UNCHANGED <<before, pure, web>>
    \/ /\ n_calls < LoginCalls
       /\ \E data \in LoginBodies : LoginStart(data)
       /\ UNCHANGED <<before, pure>>
    \/ login.pc = "auth" /\ StepAuth
    \/ LoginFinish /\ UNCHANGED <<before, pure>>
    \/ LoginDone /\ UNCHANGED <<before, pure>>

SpecLogin == InitDefault /\ [][NextLogin]_vars

\* ------------------------------------------------------------------ claims

Range(f) == {f[k] : k \in DOMAIN f}

\* what compare_faces reports for an identity against the probe of the call in flight
ReportFor(user_id) ==
    compare_faces(PyList(get_user_encodings(PyInt(user_id)).value), ndarray(auth.face_encoding),
                  Some(auth.threshold))

\* the identities of the call's snapshot that compare_faces declares a match
Matched ==
    {u \in Range(auth.users) :
        get_user_encodings(PyInt(u)).value # <<>> /\ ReportFor(u).match_found}

\* the identities that hold a stored encoding equal to the probe of the call in flight
Holders ==
    {u \in users : \E e \in Range(get_user_encodings(PyInt(u)).value) : e = auth.face_encoding}

C2_CapNeverExceeded ==
    \A u \in 1..MaxUsers : count_by_user_id(u) <= max_faces_per_user

\* C3: on success authenticate_face returns an identity whose reported
\* confidence is the maximum over the identities declared a match, in every
\* order in which User.get_all lists them.
C3_GlobalBest ==
    (auth.pc = "returned" /\ auth.result[1].success)
    => LET w == auth.result[1].user_id[1]
       IN  /\ w \in Matched
           /\ \A v \in Matched : ReportFor(v).confidence <= ReportFor(w).confidence
           /\ auth.result[1].confidence = ReportFor(w).confidence

\* A at distance 0.2 is scanned first, B at distance 0.05 second, threshold 0.6
C3_Witness ==
    /\ auth.pc = "returned"
    /\ Len(auth.users) = 2
    /\ auth.threshold = DefaultThreshold
    /\ Matched = Range(auth.users)
    /\ ReportFor(auth.users[1]).confidence = One - 4
    /\ ReportFor(auth.users[2]).confidence = One - 1
    /\ auth.result[1] = [success |-> TRUE, user_id |-> Some(auth.users[2]),
                         confidence |-> One - 1]

\* C4: every authenticate_face call that returns, and whose audit write did
\* not fail, has created exactly one AuthLog record.
C4_OneRecordPerAttempt ==
    (auth.pc = "returned" /\ ~auth.log_failed) => auth.logged = 1

\* C5: compare_faces is never invoked with an empty candidate list: an
\* identity whose encodings were read as empty is skipped, and the identity
\* returned on success is one that was compared with at least one encoding.
C5_EmptyIdentitySkipped ==
    /\ \A k \in 1..Len(auth.seen) : auth.seen[k].compared <=> auth.seen[k].n > 0
    /\ (auth.pc = "returned" /\ auth.result[1].success)
       => \E k \in 1..Len(auth.seen) :
             /\ auth.seen[k].user_id = auth.result[1].user_id[1]
             /\ auth.seen[k].n > 0

C5_Witness ==
    /\ auth.pc = "returned"
    /\ auth.result[1].success
    /\ \E k \in 1..Len(auth.seen) : auth.seen[k].n = 0 /\ ~auth.seen[k].compared

\* C6: a returned triple has success exactly when user_id is not None, a
\* failure is (False, None, 0.0), and with requests served one after another
\* the call raises only when the extraction of the probe failed.
C6_ResultShape ==
    /\ auth.pc = "returned"
       => LET r == auth.result[1]
          IN  /\ r.success <=> r.user_id # None
              /\ ~r.success => (r.user_id = None /\ r.confidence = 0)
    /\ auth.pc = "raised" => extract_face_encoding(auth.image[1]).raised # None

\* no match, although an identity was compared and reported a confidence above 0
C6_Witness ==
    /\ auth.pc = "returned"
    /\ auth.result[1] = [success |-> FALSE, user_id |-> None, confidence |-> 0]
    /\ \E k \in 1..Len(auth.seen) :
          /\ auth.seen[k].compared
          /\ ~ReportFor(auth.seen[k].user_id).match_found
          /\ ReportFor(auth.seen[k].user_id).confidence > 0

\* C7 as stated: whenever an identity holds a stored encoding equal to the
\* probe, authenticate_face returns (True, that identity, 1.0).
C7_ExactProbeReturnsEnrolled ==
    auth.pc = "returned"
    => \A a \in Holders :
          auth.result[1] = [success |-> TRUE, user_id |-> Some(a), confidence |-> One]

\* C7 amended: an encoding enrolled through register_face is read back
\* unchanged, and when some identity holds a stored encoding equal to the
\* probe, authenticate_face returns (True, X, 1.0) with X the first identity
\* of the scan order that holds such an encoding.
C7_ExactProbeReturnsFirstHolder ==
    /\ reg["r1"].pc = "returned"
       => LET stored == get_user_encodings(PyInt(reg["r1"].user_id)).value
          IN  stored[Len(stored)] = reg["r1"].face_encoding
    /\ (auth.pc = "returned" /\ Holders # {})
       => /\ auth.result[1].success
          /\ auth.result[1].confidence = One
          /\ \E k \in 1..Len(auth.users) :
                /\ auth.result[1].user_id = Some(auth.users[k])
                /\ auth.users[k] \in Holders
                /\ \A j \in 1..(k - 1) : auth.users[j] \notin Holders

\* the only holder is scanned second, after an identity with another encoding
C7_Witness ==
    /\ auth.pc = "returned"
    /\ Len(auth.users) = 2
    /\ Holders = {auth.users[2]}
    /\ get_user_encodings(PyInt(auth.users[1])).value # <<>>
    /\ auth.result[1] = [success |-> TRUE, user_id |-> Some(auth.users[2]),
                         confidence |-> One]

\* C8: when the extraction of the probe fails, authenticate_face raises:
\* FaceDetectionError and MultipleFacesError as they are, ValueError as
\* ImageQualityError; it returns no result for that image.
C8_ExtractionFailureRaises ==
    auth.pc # "idle"
    => LET extracted == extract_face_encoding(auth.image[1])
       IN  extracted.raised # None
           => /\ auth.pc = "raised"
              /\ auth.result = None
              /\ auth.raised = IF extracted.raised = Some("ValueError")
                               THEN Some("ImageQualityError")
                               ELSE extracted.raised

C8_Witness ==
    /\ auth.pc = "raised"
    /\ auth.image = Some(BadImage("ValueError"))
    /\ auth.raised = Some("ImageQualityError")

\* C9: when AuthLog.create fails, authenticate_face still returns, and it
\* returns the triple of the decision it had reached.
C9_AuditFailureSwallowed ==
    (auth.pc \in {"returned", "raised"} /\ auth.log_failed)
    => /\ auth.pc = "returned"
       /\ auth.result = Some([success |-> auth.best_match_user_id # None,
                              user_id |-> auth.best_match_user_id,
                              confidence |-> auth.best_match_confidence])

C9_Witness ==
    /\ auth.pc = "returned"
    /\ auth.log_failed
    /\ auth.result[1].success
    /\ auth.result[1].confidence > 0

\* C10: once register_user_with_face has answered with the error response,
\* the user it created is no longer in the store.
C10_FailedSignupLeavesNoUser ==
    \A p \in RegSlots :
        (reg[p].pc = "responded" /\ reg[p].response = Some(400))
        => reg[p].user_id \notin users

ValidArguments ==
    /\ cf.known_encodings.type = "list"
    /\ cf.known_encodings.items # <<>>
    /\ cf.face_encoding.type \in {"list", "ndarray"}

\* the distance of every candidate drawn from the probe drawn
Distances == face_distance(cf.known_encodings.items, cf.face_encoding.items)

\* C12: for the same candidates and probe and tolerances t1 < t2, a match at
\* t1 is a match at t2, with the same best_match_index and confidence.
C12_MonotonicInThreshold ==
    \A a1, a2 \in DOMAIN cf.out :
        (EffectiveTolerance(a1) < EffectiveTolerance(a2) /\ cf.out[a1].match_found)
        => /\ cf.out[a2].match_found
           /\ cf.out[a2].best_match_index = cf.out[a1].best_match_index
           /\ cf.out[a2].confidence = cf.out[a1].confidence

\* a match at 0.6 and at 1.0 on the second candidate, below confidence 1.0,
\* and no match at 0.0
C12_Witness ==
    /\ {Some(0), Some(DefaultThreshold), Some(One)} \subseteq DOMAIN cf.out
    /\ ~cf.out[Some(0)].match_found
    /\ cf.out[Some(DefaultThreshold)].match_found
    /\ cf.out[Some(One)].match_found
    /\ cf.out[Some(One)].best_match_index = 1
    /\ cf.out[Some(One)].confidence < One

\* C13: for a non-empty candidate list that holds an encoding equal to the
\* probe and a threshold above 0, compare_faces returns match_found = true
\* and confidence = 1.0.
C13_ExactCandidateMatches ==
    \A a \in DOMAIN cf.out :
        (/\ ValidArguments
         /\ \E k \in DOMAIN cf.known_encodings.items :
               cf.known_encodings.items[k] = cf.face_encoding.items
         /\ EffectiveTolerance(a) > 0)
        => /\ cf.out[a].raised = None
           /\ cf.out[a].match_found
           /\ cf.out[a].confidence = One

\* the equal candidate stands second, behind one farther than the threshold
C13_Witness ==
    /\ ValidArguments
    /\ Len(cf.known_encodings.items) = 2
    /\ cf.known_encodings.items[2] = cf.face_encoding.items
    /\ Distances[1] > DefaultThreshold
    /\ Some(DefaultThreshold) \in DOMAIN cf.out
    /\ cf.out[Some(DefaultThreshold)].match_found
    /\ cf.out[Some(DefaultThreshold)].best_match_index = 1

C16_NoMatchIsMinusOneAndZero ==
    \A a \in DOMAIN cf.out :
        (cf.out[a].raised = None /\ ~cf.out[a].match_found)
        => /\ cf.out[a].best_match_index = -1
           /\ cf.out[a].confidence = 0

\* C17: with an empty candidate list, a candidate argument that is no list,
\* or a probe that is None or neither list nor array, compare_faces raises
\* ValueError and computes no distance.
C17_InvalidArgumentsRaise ==
    \A a \in DOMAIN cf.out :
        (\/ cf.known_encodings = PyList(<<>>)
         \/ cf.known_encodings.type # "list"
         \/ cf.face_encoding = PyNone
         \/ cf.face_encoding.type \notin {"list", "ndarray"})
        => /\ cf.out[a].raised = Some("ValueError")
           /\ cf.out[a].face_distances = None

\* the empty list with a well-formed probe, tolerance given and left out
C17_Witness ==
    /\ cf.known_encodings = PyList(<<>>)
    /\ cf.face_encoding.type = "ndarray"
    /\ {None, Some(DefaultThreshold)} \subseteq DOMAIN cf.out
    /\ cf.out[None].raised = Some("ValueError")

\* C18: within one authenticate_face call the threshold is read once, on
\* entry to the scan, the local keeps that value to the end of the call, and
\* every compare_faces invocation of the call received it as tolerance,
\* whatever the configured threshold has become meanwhile.
C18_ThresholdReadOnce ==
    /\ [](\A k \in 1..Len(auth.seen) :
             auth.seen[k].compared => auth.seen[k].tolerance = Some(auth.threshold))
    /\ [][(auth.pc = "idle" /\ auth'.pc = "scan") => auth'.threshold = threshold]_vars
    /\ [][auth.pc \in {"scan", "log"} => auth'.threshold = auth.threshold]_vars

\* the scan compared two identities at 0.6 and found a match that is none at
\* the threshold configured by now, 0.0
C18_Witness ==
    /\ auth.pc = "log"
    /\ Len(auth.seen) = 2
    /\ \A k \in 1..2 : auth.seen[k].tolerance = Some(DefaultThreshold)
    /\ threshold = 0
    /\ auth.best_match_user_id # None
    /\ auth.best_match_confidence < One

\* validate_face_image was applied to an image (an ndarray) and has returned
Validated == vf.out # None /\ vf.image[1].type = "ndarray"

\* C19: validate_face_image returns is_valid = true exactly when height and
\* width are >= 100, the mean brightness is within 50..200, exactly one face
\* is detected, its box is at least 20% of the image in height and in width,
\* and the box is at least 10 pixels from every edge.
C19_ValidIffAllChecksPass ==
    Validated
    => LET image == vf.image[1]
           faces == image.faces
       IN  /\ vf.out[1].raised = None
           /\ vf.out[1].is_valid <=>
                /\ image.height >= 100 /\ image.width >= 100
                /\ image.brightness >= 50 /\ image.brightness <= 200
                /\ Len(faces) = 1
                /\ 5 * (faces[1].bottom - faces[1].top) >= image.height
                /\ 5 * (faces[1].right - faces[1].left) >= image.width
                /\ faces[1].top >= 10 /\ faces[1].left >= 10
                /\ image.height - faces[1].bottom >= 10
                /\ image.width - faces[1].right >= 10

\* every limit at once: 100 x 200 pixels, brightness 50, a face of 20 rows
\* (20% of the height) from row 10, and of 180 columns from column 10 to
\* column 190
C19_Witness ==
    /\ Validated
    /\ vf.image[1] = Image(100, 200, 50, <<Box(10, 10, 20, 180)>>)
    /\ vf.out[1].is_valid

\* C20: the checks are applied in the order size, brightness, face count,
\* face-to-frame ratio, edge margin, the message is that of the first check
\* that fails, and the face detector is consulted only after size and
\* brightness have passed.
C20_FirstFailingCheckReported ==
    Validated
    => LET image == vf.image[1]
           faces == image.faces
           small == image.height < 100 \/ image.width < 100
           dark == image.brightness < 50
           bright == image.brightness > 200
       IN  /\ vf.out[1].message =
                IF small THEN "Image is too small"
                ELSE IF dark THEN "Image is too dark"
                ELSE IF bright THEN "Image is too bright"
                ELSE IF Len(faces) = 0 THEN "No face detected in the image"
                ELSE IF Len(faces) > 1 THEN "Multiple faces detected in the image"
                ELSE IF \/ 5 * (faces[1].bottom - faces[1].top) < image.height
                        \/ 5 * (faces[1].right - faces[1].left) < image.width
                     THEN "Face is too small in the image"
                ELSE IF \/ faces[1].top < 10 \/ faces[1].left < 10
                        \/ image.height - faces[1].bottom < 10
                        \/ image.width - faces[1].right < 10
                     THEN "Face is too close to the edge of the image"
                ELSE "Image is valid for face recognition"
           /\ vf.out[1].detector_called <=> ~(small \/ dark \/ bright)
           /\ (image.height = 50 /\ image.width = 50)
              => vf.out[1].message = "Image is too small"
           /\ (image.height = 200 /\ image.width = 200 /\ image.brightness = 150
               /\ faces = <<>>)
              => vf.out[1].message = "No face detected in the image"

\* a black 50 x 50 image without a face fails the first three checks and is
\* reported as too small, the detector not consulted
C20_Witness ==
    /\ Validated
    /\ vf.image[1] = Image(50, 50, 0, <<>>)
    /\ vf.out[1] = Verdict(None, FALSE, "Image is too small", FALSE)

\* C21: detect_single_face raises FaceDetectionError when the locator finds
\* no face, MultipleFacesError when it finds several, and returns the one
\* box otherwise; validate_face_image, when it gets to the detection and no
\* face is found, returns (False, "No face detected in the image").
C21_SingleFaceOutcomes ==
    /\ (vf.single # None /\ vf.image[1].type = "ndarray")
       => LET faces == vf.image[1].faces
              r == vf.single[1]
          IN  /\ Len(faces) = 0 => r = [raised |-> Some("FaceDetectionError"),
                                        value |-> <<>>]
              /\ Len(faces) > 1 => r = [raised |-> Some("MultipleFacesError"),
                                        value |-> <<>>]
              /\ Len(faces) = 1 => r = [raised |-> None, value |-> <<faces[1]>>]
    /\ (Validated /\ vf.out[1].detector_called /\ vf.image[1].faces = <<>>)
       => vf.out[1] = Verdict(None, FALSE, "No face detected in the image", TRUE)

\* the same image without a face: detect_single_face has raised,
\* validate_face_image has returned
C21_Witness ==
    /\ vf.image = Some(Image(200, 200, 150, <<>>))
    /\ vf.single = Some([raised |-> Some("FaceDetectionError"), value |-> <<>>])
    /\ vf.out = Some(Verdict(None, FALSE, "No face detected in the image", TRUE))

\* C22: get_user_encodings returns the empty list for an existing identity
\* without enrollments, the stored encodings in store order otherwise, and
\* raises ValueError when user_id is no positive integer or names no user.
C22_EncodingsOrValueError ==
    gue # None
    => LET a == gue[1].user_id
           r == gue[1].out
       IN  IF a.type # "int" THEN r.raised = Some("ValueError")
           ELSE IF a.id <= 0 \/ a.id \notin users THEN r.raised = Some("ValueError")
           ELSE LET rows == SelectSeq(face_encodings, LAMBDA row : row.user_id = a.id)
                IN  /\ r.raised = None
                    /\ Len(r.value) = Len(rows)
                    /\ \A i \in 1..Len(rows) : json_dumps(r.value[i]) = rows[i].encoding
                    /\ rows = <<>> => r.value = <<>>

\* an identity enrolled with 0.2 and then with 0.05: both, in that order
C22_Witness ==
    /\ gue # None
    /\ gue[1].user_id.type = "int"
    /\ gue[1].out = [raised |-> None, value |-> << <<4>>, <<1>> >>]

\* C23: a step of authenticate_face leaves the users, the stored encodings,
\* the image artifacts and the configured threshold as they are, and the
\* audit log either as it is or longer by one record.
C23_AuthOnlyAppendsAudit ==
    [][auth' # auth
       => /\ users' = users
          /\ face_encodings' = face_encodings
          /\ files' = files
          /\ threshold' = threshold
          /\ \/ auth_logs' = auth_logs
             \/ /\ Len(auth_logs') = Len(auth_logs) + 1
                /\ SubSeq(auth_logs', 1, Len(auth_logs)) = auth_logs]_vars

\* a successful call has written its record behind an earlier one
C23_Witness ==
    /\ auth.pc = "returned"
    /\ auth.result[1].success
    /\ auth.logged = 1
    /\ Len(auth_logs) = 2
    /\ face_encodings # <<>>

\* C24: when register_face has returned, the store holds the rows it held
\* when the call began, unchanged and in place, and behind them one new row:
\* that of the target identity with the encoding extracted from the image.
C24_SuccessAddsOneRow ==
    reg["r1"].pc = "returned"
    => LET n == Len(before.rows)
       IN  /\ Len(face_encodings) = n + 1
           /\ SubSeq(face_encodings, 1, n) = before.rows
           /\ face_encodings[n + 1].user_id = reg["r1"].user_id
           /\ json_loads(face_encodings[n + 1].encoding) = reg["r1"].face_encoding

\* the target identity held one encoding and another identity held one
C24_Witness ==
    /\ reg["r1"].pc = "returned"
    /\ Len(before.rows) = 2
    /\ \E i, j \in 1..2 :
          /\ before.rows[i].user_id = reg["r1"].user_id
          /\ before.rows[j].user_id # reg["r1"].user_id

\* C25: the AuthLog record a call has written carries the user_id and the
\* success flag the call returns, and the returned confidence on success,
\* null on failure.
C25_AuditReflectsDecision ==
    (auth.pc = "returned" /\ auth.logged = 1)
    => LET record == auth_logs[Len(auth_logs)]
           r == auth.result[1]
       IN  /\ record.user_id = r.user_id
           /\ record.success = r.success
           /\ record.confidence = IF r.success THEN Some(r.confidence) ELSE None

\* a failure, recorded behind the record of a success
C25_Witness ==
    /\ auth.pc = "returned"
    /\ auth.logged = 1
    /\ ~auth.result[1].success
    /\ Len(auth_logs) = 2
    /\ auth_logs[1].success
    /\ auth_logs[1].confidence = Some(One)
    /\ auth_logs[2] = [user_id |-> None, success |-> FALSE, confidence |-> None]

\* C26: a call that has returned reports success whenever compare_faces
\* declares a match for at least one identity of its snapshot under the
\* threshold of the call, a match at distance 1.0 (confidence 0.0) included.
C26_MatchImpliesSuccess ==
    (auth.pc = "returned" /\ Matched # {}) => auth.result[1].success

\* C27: under every interleaving with requests that change the store, an
\* authenticate_face call whose probe was extracted does not raise: a call
\* that has raised is one whose extraction failed.
C27_ScanSurvivesStoreChanges ==
    auth.pc = "raised" => auth.face_encoding = <<>>

Deleted == (1..(next_user_id - 1)) \ users

\* C29: once the delete of an identity has committed, no face_encodings row
\* names it, an authenticate_face call that starts afterwards neither scans
\* nor returns it, and the delete keeps every auth_logs row, those of the
\* identity with user_id null and the others as they were.
C29_DeleteCascades ==
    /\ [](\A k \in 1..Len(face_encodings) : face_encodings[k].user_id \notin Deleted)
    /\ [][(auth.pc = "idle" /\ auth'.pc # "idle")
            => Range(auth'.users) \cap Deleted' = {}]_vars
    /\ [](auth.pc = "returned" /\ auth.result[1].success
            => auth.result[1].user_id[1] \in Range(auth.users))
    /\ [][\A u \in users \ users' :
            /\ Len(auth_logs') = Len(auth_logs)
            /\ \A k \in 1..Len(auth_logs) :
                  auth_logs'[k] = IF auth_logs[k].user_id = Some(u)
                                  THEN [auth_logs[k] EXCEPT !.user_id = None]
                                  ELSE auth_logs[k]]_vars

\* identity 1 matched, was deleted with its encoding, and the next
\* authentication with the same face has returned no match
C29_Witness ==
    /\ 1 \in Deleted
    /\ face_encodings = <<>>
    /\ auth.pc = "returned"
    /\ ~auth.result[1].success
    /\ Len(auth_logs) = 2
    /\ auth_logs[1] = [user_id |-> None, success |-> TRUE, confidence |-> Some(One)]

\* the login request in flight answers a successful authenticate_face call
MatchedLogin ==
    /\ login.pc = "auth"
    /\ auth.pc = "returned"
    /\ auth.result[1].success

\* C30: a response carries tokens only if it is the 200 response, and the
\* step that writes the response issues tokens only when authenticate_face
\* returned success and the matched user exists and is active at that step;
\* a match for a deleted or inactive user is answered 401 with no tokens.
C30_TokensOnlyForActiveUser ==
    /\ [](login.tokens # None => login.pc = "done" /\ login.status = 200)
    /\ [][login'.pc = "done" /\ login.pc # "done"
            => /\ login'.tokens # None
                  => /\ MatchedLogin
                     /\ login'.tokens = auth.result[1].user_id
                     /\ auth.result[1].user_id[1] \in users \ inactive
               /\ (MatchedLogin /\ auth.result[1].user_id[1] \notin users \ inactive)
                  => login'.status = 401 /\ login'.tokens = None]_vars

\* the face of identity 1 matched while identity 1 is inactive, and the
\* response is 401
C30_Witness ==
    /\ login.pc = "done"
    /\ login.status = 401
    /\ login.tokens = None
    /\ auth.pc = "returned"
    /\ auth.result[1].success
    /\ auth.result[1].user_id = Some(1)
    /\ 1 \in users
    /\ 1 \in inactive


============================================================================
